---- MODULE Spec2Model ----
(***************************************************************************)
(* provisionCollections (src/qwe/src/lib/test-utils.ts, lines 258-395):    *)
(* the routine that reconciles a registry of collection schemas against a  *)
(* PocketBase server.  One run is an async function; its positions are the *)
(* awaits on the external calls, and one action of the model is "an        *)
(* external call completes, and the code runs up to the next await or to   *)
(* its end".  The caller may run the routine again after it ended.         *)
(***************************************************************************)
EXTENDS Integers, Sequences, FiniteSets, TLC

\* ---------------------------------------------------------------- bounds
MaxRegistry == 2        \* longest registry handed to a run
MaxProbes == 2          \* health probes a caller makes one after the other
MaxFields == 2          \* most fields of a schema whose top level is varied
MaxTweets == 2          \* tweets ever created on the server
MaxEdits == 1           \* edits of tweets on the server
MaxRunAlls == 1         \* clicks on the Run All button
MaxGroupRuns == 1       \* clicks on the Run buttons of the groups

\* names a registry or the server may hold; "users" is PocketBase's built-in
\* auth collection (the one line 313 fetches)
CollectionNames == {"tweets", "users"}

\* the two sentinel tags of the early exits, and the tags of a settings failure
AdminSentinel == "_admin"
SystemSentinel == "_system"
SettingsSentinel == "_settings"
UsersCollection == "users"

UpdatedSuffix == " (updated)"

\* what options.onProgress can be: not given (the default no-op of line 265), or
\* a function of the caller, which returns or throws each time it is invoked
SinkKinds == {"absent", "given"}
\* what options.settings can be: undefined, {googleAuth: ...}, any other object
SettingsKinds == {"none", "googleAuth", "other"}

RECURSIVE SeqsUpTo(_, _)
SeqsUpTo(S, n) ==
    IF n = 0 THEN {<<>>}
    ELSE LET shorter == SeqsUpTo(S, n - 1)
         IN  shorter \cup {Append(q, x) : q \in {r \in shorter : Len(r) = n - 1}, x \in S}

Registries == SeqsUpTo(CollectionNames, MaxRegistry)

Options ==
    [collections : Registries, updateExisting : BOOLEAN,
     onProgress : SinkKinds, settings : SettingsKinds]

VARIABLES
    server,     \* names of the collections that exist on the PocketBase server
    opts,       \* the ProvisionOptions of the current run
    st,         \* the current run: position, result under construction, pb client
    ref,        \* the same run with the same call outcomes and no onProgress sink
    prev        \* what the caller keeps of the previous run: whether there was
                \* one, its success flag, and whether the server was changed
                \* from outside since it ended

VARIABLES
    hp,         \* a health probe (checkPocketBaseHealth or checkHealth) and the
                \* auth store of the client it uses
    pl,         \* a call of buildCollectionPayload: its schema and its payload
    cli,        \* the setup script (main of the CLI): its position and exit status
    mk,         \* a call of createCollectionSchema or createPublicCollectionSchema
    tl,         \* the timeline page, its requests in flight and the tweets
                \* collection on the server
    ta          \* the test-suite page: the run-all routine, a group run, the
                \* status of every test

\* the variables of the two pages
pages == <<tl, ta>>
\* the variables of the schema helpers and of the pages
rest == <<mk, pages>>
\* the variables the provisioning run does not touch
aside == <<hp, pl, cli, rest>>
\* the variables of the provisioning run and its caller
prov == <<opts, st, ref, prev>>

vars == <<server, opts, st, ref, prev, hp, pl, cli, mk, tl, ta>>

\* ------------------------------------------------------------ the result
EmptyMessage == [kind |-> "", n |-> 0]

InitialResult ==
    [success |-> TRUE, created |-> <<>>, skipped |-> <<>>, errors |-> <<>>,
     message |-> EmptyMessage]

\* the state of a run before its first statement
NewRun ==
    [pc |-> "idle", i |-> 1, result |-> InitialResult, calls |-> <<>>,
     outcomes |-> <<>>, authValid |-> FALSE, existing |-> {}]

ErrorEntry(name, msg) == [collection |-> name, error |-> msg]

\* an external call is issued and the run waits for it
Call(s, op, arg, next) ==
    [s EXCEPT !.calls = Append(@, [op |-> op, arg |-> arg, pos |-> IF next \in {"itemGet", "itemUpdate", "create"} THEN s.i ELSE 0]),
              !.pc = next]

\* the awaited call completed (ok) or rejected (~ok)
Completed(s, ok) == [s EXCEPT !.outcomes = Append(@, ok)]

\* an exception leaves provisionCollections: the promise rejects
Thrown(s) == [s EXCEPT !.pc = "thrown"]

\* return result
Returned(s) == [s EXCEPT !.pc = "returned"]

\* one invocation of onProgress: does it throw?
MayThrow(snk) == IF snk = "given" THEN {FALSE, TRUE} ELSE {FALSE}

\* ------------------------------------------------- the code between awaits
\* the catch of step 1 without line 287
AuthFailed_KeepsSuccess(s, msg) ==
    Returned([s EXCEPT !.result.message = [kind |-> "authFailed", n |-> 0],
                       !.result.errors = Append(@, ErrorEntry(AdminSentinel, msg))])

\* lines 285-291: the catch of step 1
AuthFailed(s, msg) ==
    Returned([s EXCEPT !.result.success = FALSE,
                       !.result.message = [kind |-> "authFailed", n |-> 0],
                       !.result.errors = Append(@, ErrorEntry(AdminSentinel, msg))])

\* the catch of step 2 copied from step 1 with its tag left as it was
FetchFailed_AdminTag(s, msg) ==
    Returned([s EXCEPT !.result.success = FALSE,
                       !.result.message = [kind |-> "fetchFailed", n |-> 0],
                       !.result.errors = Append(@, ErrorEntry(AdminSentinel, msg))])

\* lines 300-306: the catch of step 2
FetchFailed(s, msg) ==
    Returned([s EXCEPT !.result.success = FALSE,
                       !.result.message = [kind |-> "fetchFailed", n |-> 0],
                       !.result.errors = Append(@, ErrorEntry(SystemSentinel, msg))])

\* the final result with the tests of lines 384-388 in another order
Finish_SkippedFirst(s) ==
    LET r == s.result
        msg == IF Len(r.created) = 0 /\ Len(r.skipped) > 0
                 THEN [kind |-> "allExist", n |-> Len(r.skipped)]
               ELSE IF Len(r.errors) > 0
                 THEN [kind |-> "completedWithErrors", n |-> Len(r.errors)]
               ELSE [kind |-> "created", n |-> Len(r.created)]
    IN  Returned([s EXCEPT !.result.success = IF Len(r.errors) > 0 THEN FALSE ELSE @,
                           !.result.message = msg,
                           !.authValid = FALSE])

\* the final result without line 383
Finish_KeepsSuccess(s) ==
    LET r == s.result
        msg == IF Len(r.errors) > 0
                 THEN [kind |-> "completedWithErrors", n |-> Len(r.errors)]
               ELSE IF Len(r.created) = 0 /\ Len(r.skipped) > 0
                 THEN [kind |-> "allExist", n |-> Len(r.skipped)]
               ELSE [kind |-> "created", n |-> Len(r.created)]
    IN  Returned([s EXCEPT !.result.message = msg, !.authValid = FALSE])

\* lines 381-394: the final result, pb.authStore.clear(), return
Finish(s) ==
    LET r == s.result
        msg == IF Len(r.errors) > 0
                 THEN [kind |-> "completedWithErrors", n |-> Len(r.errors)]
               ELSE IF Len(r.created) = 0 /\ Len(r.skipped) > 0
                 THEN [kind |-> "allExist", n |-> Len(r.skipped)]
               ELSE [kind |-> "created", n |-> Len(r.created)]
    IN  Returned([s EXCEPT !.result.success = IF Len(r.errors) > 0 THEN FALSE ELSE @,
                           !.result.message = msg,
                           !.authValid = FALSE])

\* lines 355/372 with unshift in place of push
PushCreated_Prepend(s, entry) == [s EXCEPT !.result.created = <<entry>> \o @]

\* line 363 writing to the wrong list
PushSkipped_AsCreated(s, name) == [s EXCEPT !.result.created = Append(@, name)]

PushCreated(s, entry) == [s EXCEPT !.result.created = Append(@, entry)]
PushSkipped(s, name) == [s EXCEPT !.result.skipped = Append(@, name)]
PushError(s, name, msg) == [s EXCEPT !.result.errors = Append(@, ErrorEntry(name, msg))]
NextItem(s) == [s EXCEPT !.i = @ + 1]

\* the fields, indexes or rules of the registry entry at position k differ
\* from the copy the server holds (only a registry that says so can differ)
Drifted(o, k) == "drift" \in DOMAIN o /\ o.drift[k]

RECURSIVE LoopHead(_, _, _)
\* a loop that compares the schema with the server's copy and takes a
\* drifted one for missing
LoopHead_DiffsSchemas(s, o, snk) ==
    IF s.i > Len(o.collections) THEN {Finish(s)}
    ELSE LET name == o.collections[s.i]
             body ==
               IF name \in s.existing /\ ~Drifted(o, s.i)
                 THEN IF o.updateExisting
                        THEN {Call(s, "getOne", name, "itemGet")}
                        ELSE LET s1 == PushSkipped(s, name)
                             IN  UNION {IF t THEN {Thrown(s1)} ELSE LoopHead(NextItem(s1), o, snk)
                                        : t \in MayThrow(snk)}
                 ELSE {Call(s, "create", name, "create")}
         IN  UNION {IF t THEN {Thrown(s)} ELSE body : t \in MayThrow(snk)}

\* lines 346-379, from the head of the for loop to the next await or to the end
LoopHead(s, o, snk) ==
    IF s.i > Len(o.collections) THEN {Finish(s)}
    ELSE LET name == o.collections[s.i]
             body ==
               IF name \in s.existing
                 THEN IF o.updateExisting
                        THEN {Call(s, "getOne", name, "itemGet")}
                        ELSE LET s1 == PushSkipped(s, name)
                             IN  UNION {IF t THEN {Thrown(s1)} ELSE LoopHead(NextItem(s1), o, snk)
                                        : t \in MayThrow(snk)}
                 ELSE {Call(s, "create", name, "create")}
         IN  UNION {IF t THEN {Thrown(s)} ELSE body : t \in MayThrow(snk)}

\* a catch block that tries the same item again
ItemFailed_Retry(s, o, snk, msg) ==
    LET s1 == PushError(s, o.collections[s.i], msg)
    IN  UNION {IF t THEN {Thrown(s1)} ELSE LoopHead(s1, o, snk) : t \in MayThrow(snk)}

\* the catch blocks of the loop, lines 357-361 and 374-378
ItemFailed(s, o, snk, msg) ==
    LET s1 == PushError(s, o.collections[s.i], msg)
    IN  UNION {IF t THEN {Thrown(s1)} ELSE LoopHead(NextItem(s1), o, snk) : t \in MayThrow(snk)}

\* lines 355-356 and 372-373: the outcome is recorded, then the sink is told,
\* both inside the try
ItemDone(s, o, snk, entry) ==
    LET s1 == PushCreated(s, entry)
    IN  UNION {IF t THEN ItemFailed(s1, o, snk, "sink") ELSE LoopHead(NextItem(s1), o, snk)
               : t \in MayThrow(snk)}

\* the catch blocks of step 2.5, lines 326-330 and 337-341
SettingsFailed(s, o, snk, tag, msg) ==
    LET s1 == PushError(s, tag, msg)
    IN  UNION {IF t THEN {Thrown(s1)} ELSE LoopHead(s1, o, snk) : t \in MayThrow(snk)}

\* lines 325 and 336: the sink is told of the success inside the try
SettingsDone(s, o, snk, tag) ==
    UNION {IF t THEN SettingsFailed(s, o, snk, tag, "sink") ELSE LoopHead(s, o, snk)
           : t \in MayThrow(snk)}

\* lines 308-343 up to the first await of step 2.5
SettingsStep(s, o, snk) ==
    IF o.settings = "none" THEN LoopHead(s, o, snk)
    ELSE {IF t THEN Thrown(s)
          ELSE IF o.settings = "googleAuth"
                 THEN Call(s, "getOne", UsersCollection, "usersGet")
                 ELSE Call(s, "settingsUpdate", "", "settingsUpdate")
          : t \in MayThrow(snk)}

\* lines 259-283: up to the await of authWithPassword
Begin(snk) ==
    {IF t THEN Thrown(NewRun) ELSE Call(NewRun, "auth", "", "auth") : t \in MayThrow(snk)}

\* step 1 without its catch: the run goes on to the listing whatever happened
AfterAuth_IgnoresFailure(s0, ok, snk) ==
    LET s == Completed(s0, ok)
    IN  {Call(s, "list", "", "list")}

\* lines 283-297: authWithPassword settled
AfterAuth(s0, ok, snk) ==
    LET s == Completed(s0, ok)
    IN  IF ~ok THEN {AuthFailed(s, "api")}
        ELSE LET s1 == [s EXCEPT !.authValid = TRUE]
             IN  UNION {IF t1 THEN {AuthFailed(s1, "sink")}
                        ELSE {IF t2 THEN Thrown(s1) ELSE Call(s1, "list", "", "list")
                              : t2 \in MayThrow(snk)}
                        : t1 \in MayThrow(snk)}

\* step 2 with the fetched names dropped: existingCollections stays empty
AfterList_NoNames(s0, ok, names, o, snk) ==
    LET s == Completed(s0, ok)
    IN  IF ~ok THEN {FetchFailed(s, "api")}
        ELSE UNION {IF t THEN {FetchFailed(s, "sink")} ELSE SettingsStep(s, o, snk)
                    : t \in MayThrow(snk)}

\* lines 297-306, then step 2.5: getFullList settled with the names on the server
AfterList(s0, ok, names, o, snk) ==
    LET s == Completed(s0, ok)
    IN  IF ~ok THEN {FetchFailed(s, "api")}
        ELSE LET s1 == [s EXCEPT !.existing = names]
             IN  UNION {IF t THEN {FetchFailed(s1, "sink")} ELSE SettingsStep(s1, o, snk)
                        : t \in MayThrow(snk)}

\* line 313 settled: getOne('users')
AfterUsersGet(s0, ok, o, snk) ==
    LET s == Completed(s0, ok)
    IN  IF ok THEN {Call(s, "update", UsersCollection, "usersUpdate")}
        ELSE SettingsFailed(s, o, snk, UsersCollection, "api")

\* line 324 settled: update(users.id, {oauth2})
AfterUsersUpdate(s0, ok, o, snk) ==
    LET s == Completed(s0, ok)
    IN  IF ok THEN SettingsDone(s, o, snk, UsersCollection)
        ELSE SettingsFailed(s, o, snk, UsersCollection, "api")

\* line 335 settled: pb.settings.update(settings)
AfterSettingsUpdate(s0, ok, o, snk) ==
    LET s == Completed(s0, ok)
    IN  IF ok THEN SettingsDone(s, o, snk, SettingsSentinel)
        ELSE SettingsFailed(s, o, snk, SettingsSentinel, "api")

\* line 353 settled: getOne(schema.name)
AfterItemGet(s0, ok, o, snk) ==
    LET s == Completed(s0, ok)
    IN  IF ok THEN {Call(s, "update", o.collections[s.i], "itemUpdate")}
        ELSE ItemFailed(s, o, snk, "api")

\* line 355 without the annotation
AfterItemUpdate_NoSuffix(s0, ok, o, snk) ==
    LET s == Completed(s0, ok)
    IN  IF ok THEN ItemDone(s, o, snk, o.collections[s.i])
        ELSE ItemFailed(s, o, snk, "api")

\* line 354 settled: update(existing.id, payload)
AfterItemUpdate(s0, ok, o, snk) ==
    LET s == Completed(s0, ok)
    IN  IF ok THEN ItemDone(s, o, snk, o.collections[s.i] \o UpdatedSuffix)
        ELSE ItemFailed(s, o, snk, "api")

\* line 372 also adding the created name to existingCollections
AfterCreate_AddsToExisting(s0, ok, o, snk) ==
    LET s == Completed(s0, ok)
    IN  IF ok THEN ItemDone([s EXCEPT !.existing = @ \cup {o.collections[s.i]}], o, snk, o.collections[s.i])
        ELSE ItemFailed(s, o, snk, "api")

\* line 372 with the annotation of the update branch
AfterCreate_Annotated(s0, ok, o, snk) ==
    LET s == Completed(s0, ok)
    IN  IF ok THEN ItemDone(s, o, snk, o.collections[s.i] \o UpdatedSuffix)
        ELSE ItemFailed(s, o, snk, "api")

\* line 371 settled: create(payload)
AfterCreate(s0, ok, o, snk) ==
    LET s == Completed(s0, ok)
    IN  IF ok THEN ItemDone(s, o, snk, o.collections[s.i])
        ELSE ItemFailed(s, o, snk, "api")

\* the code that runs when the call awaited at s.pc settles
After(s, ok, names, o, snk) ==
    CASE s.pc = "auth" -> AfterAuth(s, ok, snk)
      [] s.pc = "list" -> AfterList(s, ok, names, o, snk)
      [] s.pc = "usersGet" -> AfterUsersGet(s, ok, o, snk)
      [] s.pc = "usersUpdate" -> AfterUsersUpdate(s, ok, o, snk)
      [] s.pc = "settingsUpdate" -> AfterSettingsUpdate(s, ok, o, snk)
      [] s.pc = "itemGet" -> AfterItemGet(s, ok, o, snk)
      [] s.pc = "itemUpdate" -> AfterItemUpdate(s, ok, o, snk)
      [] s.pc = "create" -> AfterCreate(s, ok, o, snk)

Ended(s) == s.pc \in {"returned", "thrown"}
Only(S) == CHOOSE x \in S : TRUE

\* the run without a sink takes the same step when it waits on the same call
RefAfter(ok, names) ==
    IF ref.pc = st.pc /\ ref.i = st.i
      THEN Only(After(ref, ok, names, opts, "absent"))
      ELSE ref

\* ------------------------------------------------------ the health probe
\* checkPocketBaseHealth (test-utils.ts:400-408) builds its own client;
\* checkHealth (pocketbase.ts:22-29) uses the module's shared client pb
HealthFns == {"checkPocketBaseHealth", "checkHealth"}

\* what pb.health.check() resolves to
HealthResponses == {[message |-> "API is healthy.", code |-> 200]}

\* what pb.health.check() can reject with: Error objects, or any other value
ThrownValues ==
    {[isError |-> TRUE, name |-> "Error", message |-> "Failed to fetch"],
     [isError |-> TRUE, name |-> "TypeError", message |-> ""],
     [isError |-> FALSE, name |-> "", message |-> "aborted"]}

\* String(error): Error.prototype.toString for an Error, the value otherwise
StringOf(err) ==
    IF err.isError
      THEN IF err.message = "" THEN err.name ELSE err.name \o ": " \o err.message
      ELSE err.message

\* error instanceof Error ? error.message : String(error)
ErrorMessage(err) == IF err.isError THEN err.message ELSE StringOf(err)

NoResult == [none |-> TRUE]

\* no probe running; loggedIn is pb.authStore.isValid of the shared client
IdleProbe(loggedIn, done) ==
    [pc |-> "idle", fn |-> "", requests |-> 0, response |-> NoResult, result |-> NoResult,
     session |-> loggedIn, before |-> NoResult, probes |-> done]

\* the function is called and awaits pb.health.check()
ProbeCalled(h, fn, names) ==
    [h EXCEPT !.pc = "waiting", !.fn = fn, !.requests = @ + 1,
              !.before = [server |-> names, session |-> h.session]]

\* test-utils.ts:403-404 and pocketbase.ts:24-25: the request resolved
HealthResolved(h, health) ==
    [h EXCEPT !.pc = "returned",
              !.response = [ok |-> TRUE, value |-> health],
              !.result = IF h.fn = "checkHealth"
                           THEN [healthy |-> TRUE, message |-> health.message, code |-> health.code]
                           ELSE [healthy |-> TRUE, message |-> health.message]]

\* a probe whose catch lets the error through
HealthRejected_Rethrows(h, err) ==
    [h EXCEPT !.pc = "thrown", !.response = [ok |-> FALSE, value |-> err]]

\* test-utils.ts:405-407 and pocketbase.ts:26-28: the request rejected
HealthRejected(h, err) ==
    [h EXCEPT !.pc = "returned",
              !.response = [ok |-> FALSE, value |-> err],
              !.result = IF h.fn = "checkHealth"
                           THEN [healthy |-> FALSE, message |-> StringOf(err), code |-> 0]
                           ELSE [healthy |-> FALSE, message |-> ErrorMessage(err)]]

\* --------------------------------------------------- the payload builder
\* JavaScript values, one record shape per type
Undefined == [undef |-> TRUE]
Null == [null |-> TRUE]
Num(n) == [num |-> n]
Str(z) == [str |-> z]
Bool(b) == [bool |-> b]
List(q) == [list |-> q]
\* an object: its own keys and their values
Obj(r) == [obj |-> r]

\* 5MB default (test-utils.ts:465)
DefaultMaxSize == 5242880

\* v || d, the operator a defaulting line must not use
Coalesce_Falsy(v, d) ==
    IF v \in {Undefined, Null, Num(0), Str(""), Bool(FALSE)} THEN d ELSE v

\* v ?? d
Coalesce(v, d) == IF v \in {Undefined, Null} THEN d ELSE v

\* field.options?.k
Get(bag, k) ==
    IF bag = Undefined THEN Undefined
    ELSE IF k \in DOMAIN bag.obj THEN bag.obj[k] ELSE Undefined

\* Object.assign(target, source) and a run of assignments target.k = v
Merge(target, source) ==
    [k \in DOMAIN target \cup DOMAIN source |->
        IF k \in DOMAIN source THEN source[k] ELSE target[k]]

\* the callback of schema.fields.map (test-utils.ts:438-474)
FieldBuilt(field) ==
    LET baseField == [name |-> field.name, type |-> field.type,
                      required |-> Coalesce(field.required, Bool(FALSE))]
        opt(k) == Get(field.options, k)
    IN  CASE field.type = Str("text") ->
               Merge(baseField, [min |-> Coalesce(opt("min"), Num(0)),
                                 max |-> Coalesce(opt("max"), Num(0)),
                                 pattern |-> Coalesce(opt("pattern"), Str(""))])
          [] field.type = Str("number") ->
               Merge(baseField, [min |-> Coalesce(opt("min"), Null),
                                 max |-> Coalesce(opt("max"), Null),
                                 noDecimal |-> Coalesce(opt("noDecimal"), Bool(FALSE))])
          [] field.type = Str("bool") -> baseField
          [] field.type = Str("select") ->
               Merge(baseField, [values |-> Coalesce(opt("values"), List(<<>>)),
                                 maxSelect |-> Coalesce(opt("maxSelect"), Num(1))])
          [] field.type = Str("relation") ->
               Merge(baseField, [collectionId |-> Coalesce(opt("collectionId"), Str("")),
                                 cascadeDelete |-> Coalesce(opt("cascadeDelete"), Bool(FALSE)),
                                 maxSelect |-> Coalesce(opt("maxSelect"), Num(1))])
          [] field.type = Str("file") ->
               Merge(baseField, [maxSelect |-> Coalesce(opt("maxSelect"), Num(1)),
                                 maxSize |-> Coalesce(opt("maxSize"), Num(DefaultMaxSize)),
                                 mimeTypes |-> Coalesce(opt("mimeTypes"), List(<<>>))])
          [] field.type = Str("editor") ->
               Merge(baseField, [convertUrls |-> Coalesce(opt("convertUrls"), Bool(FALSE))])
          [] OTHER ->
               IF field.options # Undefined
                 THEN Merge(baseField, field.options.obj)
                 ELSE baseField

\* a builder that gives an unset rule the public rule
buildCollectionPayload_DefaultsRules(schema) ==
    [name |-> schema.name,
     type |-> schema.type,
     fields |-> [i \in 1..Len(schema.fields) |-> FieldBuilt(schema.fields[i])],
     indexes |-> Coalesce(schema.indexes, List(<<>>)),
     listRule |-> Coalesce(schema.listRule, Str("")),
     viewRule |-> Coalesce(schema.viewRule, Str("")),
     createRule |-> Coalesce(schema.createRule, Str("")),
     updateRule |-> Coalesce(schema.updateRule, Str("")),
     deleteRule |-> Coalesce(schema.deleteRule, Str(""))]

\* buildCollectionPayload (test-utils.ts:436-488)
buildCollectionPayload(schema) ==
    [name |-> schema.name,
     type |-> schema.type,
     fields |-> [i \in 1..Len(schema.fields) |-> FieldBuilt(schema.fields[i])],
     indexes |-> Coalesce(schema.indexes, List(<<>>)),
     listRule |-> schema.listRule,
     viewRule |-> schema.viewRule,
     createRule |-> schema.createRule,
     updateRule |-> schema.updateRule,
     deleteRule |-> schema.deleteRule]

\* no call of buildCollectionPayload yet
NoBuild == [pc |-> "idle"]

\* the setup script is not running
NoCli == [pc |-> "idle"]

\* no schema helper called
NoMake == [pc |-> "idle"]
\* the timeline page is not mounted
NoTimeline == [pc |-> "idle"]
\* the test-suite page is not mounted
NoTests == [pc |-> "idle"]
PagesIdle == tl = NoTimeline /\ ta = NoTests
\* the schema helpers and the pages are not in use
RestIdle == mk = NoMake /\ PagesIdle

\* ------------------------------------------------------------- the server
\* what the PocketBase server answers; every call can also fail (network,
\* validation, authorization)
CanSucceed(s, o) ==
    CASE s.pc = "usersGet" -> UsersCollection \in server
      [] s.pc = "itemGet" -> o.collections[s.i] \in server
      [] s.pc = "create" -> o.collections[s.i] \notin server
      [] OTHER -> TRUE

\* ----------------------------------------------------------------- actions
NoPrev == [valid |-> FALSE, success |-> FALSE, mutated |-> FALSE]

Init ==
    /\ server \in SUBSET CollectionNames
    /\ opts = [collections |-> <<>>, updateExisting |-> FALSE,
               onProgress |-> "absent", settings |-> "none"]
    /\ st = NewRun
    /\ ref = NewRun
    /\ prev = NoPrev
    /\ hp = IdleProbe(FALSE, 0)
    /\ pl = NoBuild
    /\ cli = NoCli
    /\ RestIdle

\* the caller invokes provisionCollections(options); the code runs to line 283
Start(o) ==
    /\ st.pc = "idle"
    /\ opts' = o
    /\ st' \in Begin(o.onProgress)
    /\ ref' = Only(Begin("absent"))
    /\ prev' = NoPrev
    /\ UNCHANGED <<server, aside>>

\* the caller runs the routine again with the same registry and updateExisting
\* ("safe to run multiple times", line 256)
Rerun(snk, sett) ==
    /\ st.pc = "idle"
    /\ prev.valid
    /\ opts' = [opts EXCEPT !.onProgress = snk, !.settings = sett]
    /\ st' \in Begin(snk)
    /\ ref' = Only(Begin("absent"))
    /\ UNCHANGED <<server, prev, aside>>

\* the caller takes the settled promise and remembers how the run ended
Report ==
    /\ Ended(st)
    /\ prev' = [valid |-> TRUE,
                success |-> (st.pc = "returned" /\ st.result.success),
                mutated |-> FALSE]
    /\ st' = NewRun
    /\ ref' = NewRun
    /\ UNCHANGED <<server, opts, aside>>

\* the awaited call settles and the code runs on to its next await or its end
Settle(pc, ok) ==
    /\ st.pc = pc
    /\ ok => CanSucceed(st, opts)
    /\ st' \in After(st, ok, server, opts, opts.onProgress)
    /\ ref' = RefAfter(ok, server)
    /\ server' = IF pc = "create" /\ ok THEN server \cup {opts.collections[st.i]} ELSE server
    /\ UNCHANGED <<opts, prev, aside>>

AuthSettles == \E ok \in BOOLEAN : Settle("auth", ok)
ListSettles == \E ok \in BOOLEAN : Settle("list", ok)
UsersGetSettles == \E ok \in BOOLEAN : Settle("usersGet", ok)
UsersUpdateSettles == \E ok \in BOOLEAN : Settle("usersUpdate", ok)
SettingsUpdateSettles == \E ok \in BOOLEAN : Settle("settingsUpdate", ok)
ItemGetSettles == \E ok \in BOOLEAN : Settle("itemGet", ok)
ItemUpdateSettles == \E ok \in BOOLEAN : Settle("itemUpdate", ok)
CreateSettles == \E ok \in BOOLEAN : Settle("create", ok)

\* between two runs somebody else creates or deletes a collection on the server
ExternalMutation ==
    /\ st.pc = "idle"
    /\ prev.valid
    /\ ~prev.mutated
    /\ \E n \in CollectionNames :
         server' = IF n \in server THEN server \ {n} ELSE server \cup {n}
    /\ prev' = [prev EXCEPT !.mutated = TRUE]
    /\ UNCHANGED <<opts, st, ref, aside>>

Next ==
    \/ \E o \in Options : Start(o)
    \/ \E snk \in SinkKinds, sett \in SettingsKinds : Rerun(snk, sett)
    \/ Report
    \/ AuthSettles
    \/ ListSettles
    \/ UsersGetSettles
    \/ UsersUpdateSettles
    \/ SettingsUpdateSettles
    \/ ItemGetSettles
    \/ ItemUpdateSettles
    \/ CreateSettles
    \/ ExternalMutation

Spec == Init /\ [][Next]_vars

\* ------------------------------------------------------ reading a result
Range(q) == {q[k] : k \in 1..Len(q)}
RegistryNames == Range(opts.collections)
RegistryLen == Len(opts.collections)

InCreated(n) == n \in Range(st.result.created) \/ (n \o UpdatedSuffix) \in Range(st.result.created)
InSkipped(n) == n \in Range(st.result.skipped)
InErrors(n) == \E e \in Range(st.result.errors) : e.collection = n

\* the run came back through line 394, not through an early exit
NormalCompletion == st.pc = "returned" /\ st.result.message.kind \notin {"authFailed", "fetchFailed"}

AuthCallFailed == Len(st.outcomes) >= 1 /\ ~st.outcomes[1]
AuthCallSucceeded == Len(st.outcomes) >= 1 /\ st.outcomes[1]
ListCallFailed == Len(st.outcomes) >= 2 /\ st.outcomes[1] /\ ~st.outcomes[2]

\* a call of step 2.5 / of the registry item at position k rejected
SettingsCallFailed ==
    \E c \in 1..Len(st.outcomes) :
        st.calls[c].pos = 0 /\ st.calls[c].op \in {"getOne", "update", "settingsUpdate"} /\ ~st.outcomes[c]
ItemCallFailed(k) ==
    \E c \in 1..Len(st.outcomes) : st.calls[c].pos = k /\ ~st.outcomes[c]

\* ----------------------------------------------------------------- claims

\* C1: when a run completes its per-collection loop, every schema name of the
\* registry is in exactly one of created (possibly annotated " (updated)"),
\* skipped and errors, and no name is in two of them.
C1_Partition ==
    NormalCompletion =>
        /\ \A n \in RegistryNames :
             /\ InCreated(n) \/ InSkipped(n) \/ InErrors(n)
             /\ ~(InCreated(n) /\ InSkipped(n))
             /\ ~(InCreated(n) /\ InErrors(n))
             /\ ~(InSkipped(n) /\ InErrors(n))
        /\ \A n \in CollectionNames \cup {AdminSentinel, SystemSentinel, SettingsSentinel} :
             /\ ~(InCreated(n) /\ InSkipped(n))
             /\ ~(InCreated(n) /\ InErrors(n))
             /\ ~(InSkipped(n) /\ InErrors(n))

\* C2 as stated: a second run with update_existing=false, the same registry
\* and no external mutation in between has every schema name in skipped and
\* nothing in created or errors.
C2_Idempotence_AsStated ==
    (st.pc = "returned" /\ prev.valid /\ ~prev.mutated /\ ~opts.updateExisting) =>
        /\ \A n \in RegistryNames : InSkipped(n)
        /\ st.result.created = <<>>
        /\ st.result.errors = <<>>

\* C2 amended: if the first run returned success=true and the second run
\* (update_existing=false, same registry, no external mutation in between)
\* runs to normal completion, the second run skips the whole registry in
\* order, creates nothing, and its errors hold at most the one entry of a
\* failed settings update.
C2_Idempotence ==
    (NormalCompletion /\ prev.valid /\ prev.success /\ ~prev.mutated /\ ~opts.updateExisting) =>
        /\ st.result.skipped = opts.collections
        /\ st.result.created = <<>>
        /\ Len(st.result.errors) <= (IF opts.settings = "none" THEN 0 ELSE 1)
        /\ \A e \in Range(st.result.errors) : e.collection \in {UsersCollection, SettingsSentinel}

C2_Witness ==
    /\ NormalCompletion /\ prev.valid /\ prev.success /\ ~prev.mutated /\ ~opts.updateExisting
    /\ RegistryLen = 2
    /\ st.result.skipped = opts.collections
    /\ st.result.success

\* C3: when admin authentication fails the run returns at once: success is
\* false, created and skipped are empty, errors is the single '_admin' entry,
\* and authWithPassword is the only call that was issued.
C3_AuthFailFast ==
    AuthCallFailed =>
        /\ st.pc = "returned"
        /\ ~st.result.success
        /\ st.result.created = <<>>
        /\ st.result.skipped = <<>>
        /\ Len(st.result.errors) = 1
        /\ st.result.errors[1].collection = AdminSentinel
        /\ Len(st.calls) = 1
        /\ st.calls[1].op = "auth"

C3_Witness ==
    /\ AuthCallFailed
    /\ st.pc = "returned"
    /\ RegistryLen = 2
    /\ opts.updateExisting
    /\ opts.settings = "googleAuth"
    /\ st.result.errors = <<ErrorEntry(AdminSentinel, "api")>>

\* C4: when the listing fails after a successful authentication the run
\* returns with success false, created and skipped empty and errors the single
\* '_system' entry, a tag no collection carries; only authWithPassword and
\* getFullList were issued.
C4_FetchFailFast ==
    ListCallFailed =>
        /\ st.pc = "returned"
        /\ ~st.result.success
        /\ st.result.created = <<>>
        /\ st.result.skipped = <<>>
        /\ Len(st.result.errors) = 1
        /\ st.result.errors[1].collection = SystemSentinel
        /\ SystemSentinel \notin CollectionNames \cup {AdminSentinel}
        /\ Len(st.calls) = 2
        /\ st.calls[2].op = "list"

C4_Witness ==
    /\ ListCallFailed
    /\ st.pc = "returned"
    /\ RegistryLen = 2
    /\ opts.settings = "other"
    /\ st.result.errors = <<ErrorEntry(SystemSentinel, "api")>>

\* C5: when the create or update of the item at position k fails, the run
\* still returns a result and every item after k was processed.
C5_PartialFailureIsolation ==
    Ended(st) =>
        \A k \in 1..RegistryLen :
            ItemCallFailed(k) =>
                \A j \in (k + 1)..RegistryLen : st.pc = "returned" /\ st.i > j

\* C6: in every returned result, success is true exactly when errors is empty.
C6_SuccessIffNoErrors ==
    st.pc = "returned" => (st.result.success <=> st.result.errors = <<>>)

C6_Witness ==
    /\ st.pc = "returned"
    /\ opts.settings = "other"
    /\ RegistryLen = 2
    /\ st.result.created = opts.collections
    /\ Len(st.result.errors) = 1
    /\ ~st.result.success

\* C7: on every return path after authentication succeeded (normal
\* completion, completion with per-item errors, the fetch-failure exit) the
\* auth store has been cleared when the result is returned.
C7_SessionCleared ==
    (st.pc = "returned" /\ AuthCallSucceeded /\ st.result.message.kind # "authFailed") =>
        ~st.authValid

\* C8: provisionCollections never raises.
C8_NeverRaises == st.pc # "thrown"

\* C9: with the same inputs and the same call outcomes, a run with a sink
\* ends as the run without one: same calls, same success, created, skipped
\* and errors.
C9_SinkObservational ==
    Ended(st) =>
        /\ ref.pc = st.pc
        /\ ref.calls = st.calls
        /\ ref.result.success = st.result.success
        /\ ref.result.created = st.result.created
        /\ ref.result.skipped = st.result.skipped
        /\ ref.result.errors = st.result.errors

\* C10: a failed settings update costs exactly one errors entry and is not
\* fatal, the loop still records one outcome for every schema; without
\* settings no settings call is made and no such entry is added.
C10_SettingsNonFatal ==
    Ended(st) =>
        /\ SettingsCallFailed =>
             /\ NormalCompletion
             /\ st.i = RegistryLen + 1
             /\ st.result.errors # <<>>
             /\ st.result.errors[1].collection \in {UsersCollection, SettingsSentinel}
             /\ Len(st.result.created) + Len(st.result.skipped) + Len(st.result.errors)
                  = RegistryLen + 1
        /\ opts.settings = "none" =>
             /\ \A c \in 1..Len(st.calls) : st.calls[c].pos = 0 => st.calls[c].op \in {"auth", "list"}
             /\ ~InErrors(SettingsSentinel)

\* ------------------------------------------------ reading the call log
\* the item at position k had a call of kind op that settled successfully
ItemCallOk(k, op) ==
    \E c \in 1..Len(st.outcomes) :
        st.calls[c].pos = k /\ st.calls[c].op = op /\ st.outcomes[c]

\* the calls issued for the item at position k
CallsAt(k) == {c \in 1..Len(st.calls) : st.calls[c].pos = k}

\* the tag line 328 / line 339 gives a settings failure
SettingsTag == IF opts.settings = "googleAuth" THEN UsersCollection ELSE SettingsSentinel

\* entries of errors that report a rejected call under the tag n
ApiErrors(n) == Cardinality({j \in 1..Len(st.result.errors) : st.result.errors[j] = ErrorEntry(n, "api")})
\* rejected calls that are reported under the tag n
ApiFailures(n) ==
    Cardinality({k \in 1..RegistryLen : opts.collections[k] = n /\ ItemCallFailed(k)})
        + (IF SettingsCallFailed /\ SettingsTag = n THEN 1 ELSE 0)

Occurrences(q, x) == Cardinality({j \in 1..Len(q) : q[j] = x})

InExisting(n) == n \in st.existing
\* the names line 363 has pushed once the first m items are processed
SkipExpected(m) == SelectSeq(SubSeq(opts.collections, 1, m), InExisting)

\* C11: with update_existing=false a schema whose name is in the fetched set
\* is appended to skipped; no call is issued for it and neither created nor
\* errors gets an entry for it.
C11_SkipExisting ==
    ~opts.updateExisting =>
        /\ \A c \in 1..Len(st.calls) :
             st.calls[c].pos > 0 => opts.collections[st.calls[c].pos] \notin st.existing
        /\ \/ st.result.skipped = SkipExpected(st.i - 1)
           \/ st.pc = "thrown" /\ st.result.skipped = SkipExpected(st.i)
        /\ \A n \in st.existing :
             /\ n \notin Range(st.result.created)
             /\ (n \o UpdatedSuffix) \notin Range(st.result.created)
             /\ \A j \in 1..Len(st.result.errors) :
                  st.result.errors[j].collection = n =>
                      j = 1 /\ opts.settings = "googleAuth" /\ n = UsersCollection

C11_Witness ==
    /\ NormalCompletion
    /\ ~opts.updateExisting
    /\ RegistryLen = 2
    /\ opts.collections[1] \in st.existing
    /\ opts.collections[2] \notin st.existing
    /\ st.result.skipped = <<opts.collections[1]>>
    /\ st.result.created = <<opts.collections[2]>>
    /\ Len(st.calls) = 3
    /\ st.result.success

\* C12: with update_existing=true a schema whose name is in the fetched set
\* gets getOne(name) and then, if that succeeded, update on the fetched
\* record, never create; name + " (updated)" is appended to created exactly
\* when both succeeded, {name, error} to errors when either failed, and
\* nothing goes to skipped.
C12_UpdateExisting ==
    opts.updateExisting =>
        /\ st.result.skipped = <<>>
        /\ \A c \in 1..Len(st.calls) :
             LET k == st.calls[c].pos
             IN  (k > 0 /\ opts.collections[k] \in st.existing) =>
                   /\ st.calls[c].arg = opts.collections[k]
                   /\ st.calls[c].op \in {"getOne", "update"}
                   /\ st.calls[c].op = "update" =>
                        /\ st.calls[c - 1] = [op |-> "getOne", arg |-> opts.collections[k], pos |-> k]
                        /\ st.outcomes[c - 1]
                   /\ st.calls[c].op = "getOne" => st.calls[c - 1].pos # k
        /\ \A n \in st.existing :
             /\ Occurrences(st.result.created, n \o UpdatedSuffix)
                  = Cardinality({k \in 1..RegistryLen : opts.collections[k] = n /\ ItemCallOk(k, "update")})
             /\ n \notin Range(st.result.created)
             /\ ApiErrors(n) = ApiFailures(n)

C12_Witness ==
    /\ NormalCompletion
    /\ opts.updateExisting
    /\ RegistryLen = 2
    /\ Range(opts.collections) \subseteq st.existing
    /\ st.result.created = <<opts.collections[1] \o UpdatedSuffix>>
    /\ st.result.errors = <<ErrorEntry(opts.collections[2], "api")>>
    /\ Len(st.calls) = 6
    /\ st.outcomes = <<TRUE, TRUE, TRUE, TRUE, TRUE, FALSE>>

\* C13: a schema whose name is not in the fetched set gets exactly one create
\* call; when it succeeds the bare name is appended to created and the
\* collection is on the server, when it fails {name, error} is appended to
\* errors.  With default options, an empty server and a one-schema registry
\* whose calls all succeed the result is created=[name], skipped=[],
\* errors=[], success=true.
C13_CreateMissing ==
    /\ \A k \in 1..RegistryLen :
         opts.collections[k] \notin st.existing =>
           /\ Cardinality(CallsAt(k)) <= 1
           /\ (k < st.i) => Cardinality(CallsAt(k)) = 1
           /\ \A c \in CallsAt(k) : st.calls[c].op = "create" /\ st.calls[c].arg = opts.collections[k]
           /\ ItemCallOk(k, "create") => opts.collections[k] \in server
    /\ \A n \in CollectionNames \ st.existing :
         /\ Occurrences(st.result.created, n)
              = Cardinality({k \in 1..RegistryLen : opts.collections[k] = n /\ ItemCallOk(k, "create")})
         /\ (n \o UpdatedSuffix) \notin Range(st.result.created)
         /\ ApiErrors(n) = ApiFailures(n)
    /\ ( /\ st.pc = "returned"
         /\ opts.onProgress = "absent" /\ opts.settings = "none"
         /\ RegistryLen = 1 /\ st.existing = {}
         /\ st.outcomes = <<TRUE, TRUE, TRUE>> ) =>
           /\ st.result.created = opts.collections
           /\ st.result.skipped = <<>>
           /\ st.result.errors = <<>>
           /\ st.result.success

C13_Witness ==
    /\ st.pc = "returned"
    /\ opts.onProgress = "absent" /\ opts.settings = "none"
    /\ RegistryLen = 1 /\ st.existing = {}
    /\ st.outcomes = <<TRUE, TRUE, TRUE>>
    /\ st.result.created = opts.collections
    /\ opts.collections[1] \in server
    /\ st.result.success

\* ------------------------------------------------------- order of a run
\* the registry name a created entry stands for
Strip(entry) == CHOOSE n \in CollectionNames : entry = n \/ entry = n \o UpdatedSuffix

\* q is r with some elements left out
RECURSIVE InOrder(_, _)
InOrder(q, r) ==
    IF q = <<>> THEN TRUE
    ELSE IF r = <<>> THEN FALSE
    ELSE IF Head(q) = Head(r) THEN InOrder(Tail(q), Tail(r))
    ELSE InOrder(q, Tail(r))

CreatedNames == [j \in 1..Len(st.result.created) |-> Strip(st.result.created[j])]
ErrorNames == [j \in 1..Len(st.result.errors) |-> st.result.errors[j].collection]

\* the step of the algorithm a call belongs to
Phase(c) ==
    IF c.op = "auth" THEN 1
    ELSE IF c.op = "list" THEN 2
    ELSE IF c.pos = 0 THEN 3
    ELSE 4

\* C18: schemas are processed strictly in registry order, one call in flight
\* at a time: a call for the item at position k is issued only when every
\* earlier item has its outcome, and the names in created, in skipped and in
\* the per-item part of errors keep the order of the registry.
C18_RegistryOrder ==
    /\ Len(st.calls) - Len(st.outcomes) \in {0, 1}
    /\ \A c, d \in 1..Len(st.calls) :
         (c < d /\ st.calls[c].pos > 0) => st.calls[c].pos <= st.calls[d].pos
    /\ \A c \in 1..Len(st.calls) :
         LET k == st.calls[c].pos
         IN  k > 0 =>
               /\ k <= st.i
               /\ \A j \in 1..(k - 1) :
                    IF opts.collections[j] \in st.existing /\ ~opts.updateExisting
                      THEN Len(st.result.skipped) >= Len(SkipExpected(j))
                      ELSE \E b \in CallsAt(j) : b < c /\ b <= Len(st.outcomes)
    /\ InOrder(CreatedNames, opts.collections)
    /\ InOrder(st.result.skipped, opts.collections)
    /\ \/ InOrder(ErrorNames, opts.collections)
       \/ /\ st.result.errors # <<>>
          /\ opts.settings # "none"
          /\ ErrorNames[1] = SettingsTag
          /\ InOrder(Tail(ErrorNames), opts.collections)
       \/ /\ st.result.message.kind \in {"authFailed", "fetchFailed"}
          /\ Len(st.result.errors) = 1

C18_Witness ==
    /\ NormalCompletion
    /\ RegistryLen = 2
    /\ opts.collections[1] # opts.collections[2]
    /\ st.result.created = opts.collections
    /\ Len(st.calls) = 4

\* C19: authWithPassword is the first call; getFullList is issued only after
\* it succeeded; every settings, getOne, create and update call is issued
\* only after getFullList succeeded, settings calls before item calls; the
\* run never goes back to an earlier step.
C19_StateOrder ==
    /\ \A c \in 1..Len(st.calls) :
         /\ (c = 1) <=> (st.calls[c].op = "auth")
         /\ (c = 2) <=> (st.calls[c].op = "list")
         /\ c >= 2 => st.outcomes[1]
         /\ c >= 3 => st.outcomes[2]
    /\ \A c, d \in 1..Len(st.calls) : c < d => Phase(st.calls[c]) <= Phase(st.calls[d])
    /\ st.pc = "idle" => st.calls = <<>>

C19_Witness ==
    /\ NormalCompletion
    /\ opts.settings = "googleAuth"
    /\ opts.updateExisting
    /\ RegistryLen = 2
    /\ Len(st.calls) = 7
    /\ st.calls[7].op = "create"

\* C20: nothing is retried: authentication and listing are attempted at most
\* once, a registry entry gets at most one create, or at most one getOne
\* followed by at most one update, a call that failed is not issued again,
\* and every failed call has exactly one entry in errors.
C20_NoRetry ==
    /\ Cardinality({c \in 1..Len(st.calls) : st.calls[c].op = "auth"}) <= 1
    /\ Cardinality({c \in 1..Len(st.calls) : st.calls[c].op = "list"}) <= 1
    /\ \A k \in 0..RegistryLen :
         /\ \A op \in {"create", "getOne", "update", "settingsUpdate"} :
              Cardinality({c \in CallsAt(k) : st.calls[c].op = op}) <= 1
         /\ (\E c \in CallsAt(k) : st.calls[c].op = "create") => Cardinality(CallsAt(k)) = 1
    /\ \A c \in 1..Len(st.outcomes) :
         ~st.outcomes[c] => \A d \in (c + 1)..Len(st.calls) : st.calls[d] # st.calls[c]
    /\ Cardinality({j \in 1..Len(st.result.errors) : st.result.errors[j].error = "api"})
         = Cardinality({c \in 1..Len(st.outcomes) : ~st.outcomes[c]})

C20_Witness ==
    /\ NormalCompletion
    /\ opts.settings = "other"
    /\ RegistryLen = 2
    /\ st.outcomes = <<TRUE, TRUE, FALSE, FALSE, FALSE>>
    /\ Len(st.result.errors) = 3

\* ------------------------------------------- the health probe on its own
InitHealth ==
    /\ server \in SUBSET CollectionNames
    /\ opts = [collections |-> <<>>, updateExisting |-> FALSE,
               onProgress |-> "absent", settings |-> "none"]
    /\ st = NewRun
    /\ ref = NewRun
    /\ prev = NoPrev
    /\ hp \in {IdleProbe(b, 0) : b \in BOOLEAN}
    /\ pl = NoBuild
    /\ cli = NoCli
    /\ RestIdle

\* a caller invokes checkPocketBaseHealth(pbUrl) or checkHealth()
ProbeStart(fn) ==
    /\ hp.pc = "idle"
    /\ hp.probes < MaxProbes
    /\ hp' = ProbeCalled(hp, fn, server)
    /\ UNCHANGED <<server, prov, pl, cli, rest>>

\* pb.health.check() resolves
HealthResolves(health) ==
    /\ hp.pc = "waiting"
    /\ hp' = HealthResolved(hp, health)
    /\ UNCHANGED <<server, prov, pl, cli, rest>>

\* pb.health.check() rejects
HealthRejects(err) ==
    /\ hp.pc = "waiting"
    /\ hp' = HealthRejected(hp, err)
    /\ UNCHANGED <<server, prov, pl, cli, rest>>

\* the caller takes the answer (part_000:140-150, +page.svelte:195)
ProbeTaken ==
    /\ hp.pc \in {"returned", "thrown"}
    /\ hp' = IdleProbe(hp.session, hp.probes + 1)
    /\ UNCHANGED <<server, prov, pl, cli, rest>>

NextHealth ==
    \/ \E fn \in HealthFns : ProbeStart(fn)
    \/ \E health \in HealthResponses : HealthResolves(health)
    \/ \E err \in ThrownValues : HealthRejects(err)
    \/ ProbeTaken

SpecHealth == InitHealth /\ [][NextHealth]_vars

\* C14: a health probe never raises; it issues one health request, answers
\* healthy=true with the server's message when the request succeeds and
\* healthy=false with a description of the failure when it fails, and leaves
\* the server's collections and the client's session as they were.
C14_HealthNeverRaises ==
    /\ hp.pc # "thrown"
    /\ hp.pc \in {"waiting", "returned"} =>
         /\ hp.requests = 1
         /\ server = hp.before.server
         /\ hp.session = hp.before.session
    /\ hp.pc = "returned" =>
         IF hp.response.ok
           THEN hp.result.healthy /\ hp.result.message = hp.response.value.message
           ELSE /\ ~hp.result.healthy
                /\ hp.result.message \in {hp.response.value.message, StringOf(hp.response.value)}

C14_Witness ==
    /\ hp.pc = "returned"
    /\ hp.fn = "checkHealth"
    /\ hp.session
    /\ ~hp.response.ok
    /\ hp.result = [healthy |-> FALSE, message |-> "Error: Failed to fetch", code |-> 0]

\* ---------------------------------------- the payload builder on its own
\* the field kinds buildCollectionPayload has a branch for, and the others of
\* FieldSchema (test-utils.ts:100)
KnownKinds == {"text", "number", "bool", "select", "relation", "file", "editor"}
OtherKinds == {"email", "url", "date", "json"}

\* the attributes each branch reads from options
KindKeys(kind) ==
    CASE kind = "text" -> {"min", "max", "pattern"}
      [] kind = "number" -> {"min", "max", "noDecimal"}
      [] kind = "select" -> {"values", "maxSelect"}
      [] kind = "relation" -> {"collectionId", "cascadeDelete", "maxSelect"}
      [] kind = "file" -> {"maxSelect", "maxSize", "mimeTypes"}
      [] kind = "editor" -> {"convertUrls"}
      [] OTHER -> {}

\* a value a caller may give an attribute
Supplied(kind, k) ==
    CASE k = "min" -> IF kind = "number" THEN Num(0) ELSE Num(3)
      [] k = "max" -> Num(280)
      [] k = "pattern" -> Str("^[a-z]+$")
      [] k = "noDecimal" -> Bool(TRUE)
      [] k = "values" -> List(<<"draft", "published">>)
      [] k = "maxSelect" -> Num(3)
      [] k = "collectionId" -> Str("users")
      [] k = "cascadeDelete" -> Bool(TRUE)
      [] k = "maxSize" -> Num(1048576)
      [] k = "mimeTypes" -> List(<<"image/png">>)
      [] k = "convertUrls" -> Bool(TRUE)

\* the options bags of a field of one kind: absent, or an object in which
\* each attribute of the kind is omitted, null or supplied; a kind with no
\* attributes of its own gets bags with other keys
Bags(kind) ==
    {Undefined} \cup
    IF KindKeys(kind) # {}
      THEN UNION {{Obj([k \in S |-> IF m[k] = "null" THEN Null ELSE Supplied(kind, k)]) :
                      m \in [S -> {"null", "given"}]} : S \in SUBSET KindKeys(kind)}
      ELSE {Obj([exceptDomains |-> List(<<"example.com">>)]),
            Obj([name |-> Str("renamed"), required |-> Bool(TRUE)])}

\* required?: boolean
RequiredFlags == {Undefined, Bool(TRUE), Bool(FALSE)}

AllFields ==
    UNION {{[name |-> Str("title"), type |-> Str(kind), required |-> r, options |-> b] :
               r \in RequiredFlags, b \in Bags(kind)} : kind \in KnownKinds \cup OtherKinds}

\* a field as the default registry declares it, and one of another kind
PlainFields ==
    {[name |-> Str("title"), type |-> Str("text"), required |-> Bool(TRUE), options |-> Undefined],
     [name |-> Str("meta"), type |-> Str("json"), required |-> Undefined, options |-> Undefined]}

RuleSlots == {"listRule", "viewRule", "createRule", "updateRule", "deleteRule"}
\* absent, locked, public, authenticated only
RuleValues == {Undefined, Null, Str(""), Str("@request.auth.id != \"\"")}
IndexValues == {Undefined, List(<<>>), List(<<"CREATE INDEX idx_title ON tweets (title)">>)}
SchemaKinds == {"base", "auth", "view"}

CollectionSchema(type, fields, indexes, rules) ==
    [name |-> Str("tweets"), type |-> Str(type), fields |-> fields, indexes |-> indexes,
     listRule |-> rules["listRule"], viewRule |-> rules["viewRule"],
     createRule |-> rules["createRule"], updateRule |-> rules["updateRule"],
     deleteRule |-> rules["deleteRule"]]

\* the schemas handed to the builder: every field with the top level of
\* tweetsCollection, and every top level over up to MaxFields plain fields
Schemas ==
    {CollectionSchema("base", <<f>>, Undefined,
                      [r \in RuleSlots |-> IF r \in {"updateRule", "deleteRule"}
                                              THEN Str("@request.auth.id != \"\"") ELSE Str("")]) :
        f \in AllFields}
    \cup
    {CollectionSchema(t, q, ix, rules) :
        t \in SchemaKinds, q \in SeqsUpTo(PlainFields, MaxFields),
        ix \in IndexValues, rules \in [RuleSlots -> RuleValues]}

InitPayload ==
    /\ server = {}
    /\ opts = [collections |-> <<>>, updateExisting |-> FALSE,
               onProgress |-> "absent", settings |-> "none"]
    /\ st = NewRun
    /\ ref = NewRun
    /\ prev = NoPrev
    /\ hp = IdleProbe(FALSE, 0)
    /\ pl \in {[pc |-> "ready", schema |-> schema, payload |-> Undefined] : schema \in Schemas}
    /\ cli = NoCli
    /\ RestIdle

\* buildCollectionPayload(schema) is called and returns (test-utils.ts:354,371)
Build ==
    /\ pl.pc = "ready"
    /\ pl' = [pl EXCEPT !.pc = "built", !.payload = buildCollectionPayload(pl.schema)]
    /\ UNCHANGED <<server, prov, hp, cli, rest>>

NextPayload == Build

SpecPayload == InitPayload /\ [][NextPayload]_vars

\* the defaults the contract documents for each kind
DocumentedDefaults(kind) ==
    CASE kind = "text" -> [min |-> Num(0), max |-> Num(0), pattern |-> Str("")]
      [] kind = "number" -> [min |-> Null, max |-> Null, noDecimal |-> Bool(FALSE)]
      [] kind = "bool" -> [k \in {} |-> Undefined]
      [] kind = "select" -> [values |-> List(<<>>), maxSelect |-> Num(1)]
      [] kind = "relation" -> [collectionId |-> Str(""), cascadeDelete |-> Bool(FALSE),
                               maxSelect |-> Num(1)]
      [] kind = "file" -> [maxSelect |-> Num(1), maxSize |-> Num(5242880),
                           mimeTypes |-> List(<<>>)]
      [] kind = "editor" -> [convertUrls |-> Bool(FALSE)]

\* the fields of the built schema that are of a known kind, by position
KnownPositions ==
    {i \in 1..Len(pl.schema.fields) : pl.schema.fields[i].type \in {Str(k) : k \in KnownKinds}}

\* C15 as stated: every attribute of the kind is emitted, with the documented
\* default when options omits it and with the supplied value whenever options
\* has the attribute.
C15_PayloadDefaults_AsStated ==
    pl.pc = "built" =>
      \A i \in KnownPositions :
        LET f == pl.schema.fields[i]
            e == pl.payload.fields[i]
            d == DocumentedDefaults(f.type.str)
        IN  /\ DOMAIN e = {"name", "type", "required"} \cup DOMAIN d
            /\ \A k \in DOMAIN d :
                 e[k] = IF Get(f.options, k) = Undefined THEN d[k] ELSE Get(f.options, k)

\* C15: buildCollectionPayload answers for every schema and emits, for every
\* field of a known kind, exactly the attributes of the kind: the documented
\* default when options omits the attribute or gives it as null, and the
\* supplied value when options gives a value other than null.
C15_PayloadDefaults ==
    pl.pc = "built" =>
      \A i \in KnownPositions :
        LET f == pl.schema.fields[i]
            e == pl.payload.fields[i]
            d == DocumentedDefaults(f.type.str)
        IN  /\ DOMAIN e = {"name", "type", "required"} \cup DOMAIN d
            /\ \A k \in DOMAIN d :
                 e[k] = IF Get(f.options, k) \in {Undefined, Null} THEN d[k] ELSE Get(f.options, k)

C15_Witness ==
    /\ pl.pc = "built"
    /\ Len(pl.schema.fields) = 1
    /\ pl.schema.fields[1].type = Str("file")
    /\ pl.schema.fields[1].options = Obj([maxSelect |-> Null, mimeTypes |-> List(<<"image/png">>)])
    /\ pl.payload.fields[1].maxSelect = Num(1)
    /\ pl.payload.fields[1].maxSize = Num(5242880)
    /\ pl.payload.fields[1].mimeTypes = List(<<"image/png">>)

\* C17: the payload carries the schema's name and kind, the entry of the i-th
\* declared field at position i and nothing else, the schema's indexes or the
\* empty sequence when they are absent, and each of the five rules exactly as
\* the schema has it: empty stays empty, null stays null, absent stays absent.
C17_TopLevel ==
    pl.pc = "built" =>
      /\ pl.payload.name = pl.schema.name
      /\ pl.payload.type = pl.schema.type
      /\ DOMAIN pl.payload.fields = 1..Len(pl.schema.fields)
      /\ \A i \in 1..Len(pl.schema.fields) :
           /\ pl.payload.fields[i] = FieldBuilt(pl.schema.fields[i])
           /\ pl.payload.fields[i].name = pl.schema.fields[i].name
                 \/ Get(pl.schema.fields[i].options, "name") # Undefined
      /\ pl.payload.indexes =
           IF pl.schema.indexes = Undefined THEN List(<<>>) ELSE pl.schema.indexes
      /\ \A r \in RuleSlots : pl.payload[r] = pl.schema[r]
      /\ DOMAIN pl.payload = {"name", "type", "fields", "indexes"} \cup RuleSlots

C17_Witness ==
    /\ pl.pc = "built"
    /\ Len(pl.schema.fields) = 2
    /\ pl.payload.fields[1].name = Str("title")
    /\ pl.payload.fields[2].name = Str("meta")
    /\ pl.schema.indexes = Undefined
    /\ pl.payload.indexes = List(<<>>)
    /\ pl.payload.listRule = Str("")
    /\ pl.payload.viewRule = Null
    /\ pl.payload.deleteRule = Undefined

\* ------------------------------------------- the summary and the counts
\* C22: on normal completion the summary is "Completed with N error(s)" with
\* N = |errors| when there are errors, else "All K collection(s) already
\* exist" with K = |skipped| when nothing was created and something was
\* skipped, else "Successfully created M collection(s)" with M = |created|,
\* updated entries included, and M = 0 for an empty registry.
C22_SummaryMessage ==
    NormalCompletion =>
      LET r == st.result
      IN  /\ Len(r.errors) > 0 =>
               r.message = [kind |-> "completedWithErrors", n |-> Len(r.errors)]
          /\ Len(r.errors) = 0 /\ Len(r.created) = 0 /\ Len(r.skipped) > 0 =>
               r.message = [kind |-> "allExist", n |-> Len(r.skipped)]
          /\ Len(r.errors) = 0 /\ ~(Len(r.created) = 0 /\ Len(r.skipped) > 0) =>
               r.message = [kind |-> "created", n |-> Len(r.created)]
          /\ RegistryLen = 0 /\ Len(r.errors) = 0 => r.message = [kind |-> "created", n |-> 0]

C22_Witness ==
    /\ NormalCompletion
    /\ st.result.skipped = <<"users">>
    /\ Len(st.result.created) = 0
    /\ st.result.errors = <<ErrorEntry("tweets", "api")>>
    /\ st.result.message = [kind |-> "completedWithErrors", n |-> 1]

\* settings were supplied and applying them failed
SettingsFailedToApply == opts.settings # "none" /\ SettingsCallFailed

CallsOf(op) == {c \in 1..Len(st.calls) : st.calls[c].op = op}

\* the loop has passed position k
Passed(k) == st.i > k \/ NormalCompletion

\* the names the listing of this run returned: the server's names without
\* those this run has created since
Fetched ==
    server \ {st.calls[c].arg : c \in {d \in CallsOf("create") : d <= Len(st.outcomes) /\ st.outcomes[d]}}

\* C26: the names are fetched at most once in a run and existingCollections
\* stays as it was fetched while the loop runs; an entry whose name was not
\* fetched gets a create call whatever happened to earlier entries, so a
\* registry that lists an absent name twice issues two create calls for it.
C26_ExistingFetchedOnce ==
    /\ Cardinality(CallsOf("list")) <= 1
    /\ st.pc \in {"itemGet", "itemUpdate", "create"} \/ NormalCompletion =>
         /\ st.existing = Fetched
         /\ \A k \in 1..RegistryLen :
              Passed(k) /\ opts.collections[k] \notin Fetched =>
                {st.calls[c].op : c \in CallsAt(k)} = {"create"} /\ Cardinality(CallsAt(k)) = 1

C26_Witness ==
    /\ NormalCompletion
    /\ opts.collections = <<"tweets", "tweets">>
    /\ st.existing = {}
    /\ Cardinality({c \in CallsOf("create") : st.calls[c].arg = "tweets"}) = 2
    /\ st.result.created = <<"tweets">>
    /\ st.result.errors = <<ErrorEntry("tweets", "api")>>

\* C23: a run that has ended has returned a ProvisionResult, no call is left
\* waiting, and it made at most one pass over the registry: at most two calls
\* for each entry and none for a position outside the registry.
C23_ReturnsAfterOnePass ==
    Ended(st) =>
      /\ st.pc = "returned"
      /\ Len(st.outcomes) = Len(st.calls)
      /\ \A c \in 1..Len(st.calls) : st.calls[c].pos \in 0..RegistryLen
      /\ \A k \in 1..RegistryLen : Cardinality(CallsAt(k)) <= 2

\* ------------------------------------- registries that drifted from the server
\* the options of a run together with, for each registry entry, whether its
\* schema differs from the server's copy of that name
DriftOptions ==
    UNION {[collections : {q}, updateExisting : BOOLEAN, onProgress : SinkKinds,
            settings : SettingsKinds, drift : [1..Len(q) -> BOOLEAN]] : q \in Registries}

NextDrift ==
    \/ \E o \in DriftOptions : Start(o)
    \/ AuthSettles
    \/ ListSettles
    \/ UsersGetSettles
    \/ UsersUpdateSettles
    \/ SettingsUpdateSettles
    \/ ItemGetSettles
    \/ ItemUpdateSettles
    \/ CreateSettles

SpecDrift == Init /\ [][NextDrift]_vars

\* the loop has decided what to do with the entry at position k
Decided(k) == CallsAt(k) # {} \/ st.i > k \/ NormalCompletion

\* what it decided: no call (skip), getOne first (update), create first
Branch(k) ==
    IF CallsAt(k) = {} THEN "skip"
    ELSE LET first == CHOOSE c \in CallsAt(k) : \A d \in CallsAt(k) : c <= d
         IN  IF st.calls[first].op = "create" THEN "create" ELSE "update"

\* C21: the branch taken for a registry entry is fixed by whether its name
\* was fetched and by update_existing, whether or not its fields, indexes or
\* rules differ from the server's copy; with update_existing=false a drifted
\* schema whose name exists is skipped.
C21_BranchByNameOnly ==
    \A k \in 1..RegistryLen :
      Decided(k) =>
        Branch(k) = IF opts.collections[k] \in Fetched
                      THEN IF opts.updateExisting THEN "update" ELSE "skip"
                      ELSE "create"

C21_Witness ==
    /\ NormalCompletion
    /\ opts.collections = <<"tweets">>
    /\ opts.drift = <<TRUE>>
    /\ ~opts.updateExisting
    /\ server = {"tweets"}
    /\ Branch(1) = "skip"
    /\ st.result.skipped = <<"tweets">>

\* ------------------------------------------------------ the setup script
\* DEFAULT_COLLECTIONS (test-utils.ts:163-166), the registry of a run that
\* is given none
DefaultCollections == <<"test_items", "tweets">>

\* the options main passes (part_000:201-216): no collections, no
\* updateExisting, its own logger as onProgress (it returns each time),
\* settings only when the Google credentials are in the environment
CliOptions ==
    {[collections |-> DefaultCollections, updateExisting |-> FALSE,
      onProgress |-> "logger", settings |-> sett] : sett \in {"none", "googleAuth"}}

\* a gate that lets an unhealthy server through
GateOpen_Always(health) == TRUE

\* part_000:140: if (!health.healthy) { ... process.exit(1) }
GateOpen(health) == health.healthy

\* part_000:218-255 and 259-262: the status the process ends with
ExitStatus(s) ==
    IF s.pc = "thrown" THEN 1
    ELSE IF s.result.success THEN 0 ELSE 1

InitCli ==
    /\ server \in SUBSET (CollectionNames \cup {"test_items"})
    /\ opts = [collections |-> <<>>, updateExisting |-> FALSE,
               onProgress |-> "absent", settings |-> "none"]
    /\ st = NewRun
    /\ ref = NewRun
    /\ prev = NoPrev
    /\ hp = IdleProbe(FALSE, 0)
    /\ pl = NoBuild
    /\ cli = [pc |-> "start"]
    /\ RestIdle

\* part_000:136-138: main calls checkPocketBaseHealth(pbUrl)
CliProbes ==
    /\ cli.pc = "start"
    /\ hp' = ProbeCalled(hp, "checkPocketBaseHealth", server)
    /\ cli' = [pc |-> "probing"]
    /\ UNCHANGED <<server, prov, pl, rest>>

\* part_000:140-150: the probe answered unhealthy, main exits
CliGivesUp ==
    /\ cli.pc = "probing"
    /\ hp.pc = "returned"
    /\ ~GateOpen(hp.result)
    /\ cli' = [pc |-> "exited", exit |-> 1]
    /\ UNCHANGED <<server, prov, hp, pl, rest>>

\* part_000:152-216: the probe answered healthy, main calls provisionCollections
CliProvisions(o) ==
    /\ cli.pc = "probing"
    /\ hp.pc = "returned"
    /\ GateOpen(hp.result)
    /\ opts' = o
    /\ st' \in Begin(o.onProgress)
    /\ ref' = Only(Begin("absent"))
    /\ cli' = [pc |-> "provisioning"]
    /\ UNCHANGED <<server, prev, hp, pl, rest>>

\* part_000:218-262: the promise of provisionCollections settled, main reports
\* and the process ends
CliReports ==
    /\ cli.pc = "provisioning"
    /\ Ended(st)
    /\ cli' = [pc |-> "exited", exit |-> ExitStatus(st)]
    /\ UNCHANGED <<server, prov, hp, pl, rest>>

NextCli ==
    \/ CliProbes
    \/ \E health \in HealthResponses : HealthResolves(health)
    \/ \E err \in ThrownValues : HealthRejects(err)
    \/ CliGivesUp
    \/ \E o \in CliOptions : CliProvisions(o)
    \/ AuthSettles
    \/ ListSettles
    \/ UsersGetSettles
    \/ UsersUpdateSettles
    \/ CreateSettles
    \/ CliReports

SpecCli == InitCli /\ [][NextCli]_vars

\* C24: provisionCollections issues no health request; main calls it only
\* after checkPocketBaseHealth answered healthy=true; on an unhealthy answer
\* the script exits with status 1 with no authentication and no provisioning,
\* and after provisioning it exits with status 1 exactly when result.success
\* is false.
C24_HealthGate ==
    /\ cli.pc \in {"provisioning", "exited"} => hp.requests = 1
    /\ \A c \in 1..Len(st.calls) : st.calls[c].op # "health"
    /\ st # NewRun => hp.pc = "returned" /\ hp.result.healthy
    /\ cli.pc = "exited" /\ ~hp.result.healthy => cli.exit = 1 /\ st = NewRun
    /\ cli.pc = "exited" /\ hp.result.healthy =>
         /\ st.pc = "returned"
         /\ cli.exit = 1 <=> ~st.result.success

C24_Witness ==
    /\ cli.pc = "exited"
    /\ hp.result.healthy
    /\ cli.exit = 1
    /\ st.result.created = <<"test_items">>
    /\ st.result.errors = <<ErrorEntry("tweets", "api")>>

\* C27: every field entry of the payload has the name, the type and the
\* required flag of the declared field (false when the flag is omitted),
\* whatever keys the options bag of the field has.
C27_FieldIdentity ==
    pl.pc = "built" =>
      \A i \in 1..Len(pl.schema.fields) :
        LET f == pl.schema.fields[i]
            e == pl.payload.fields[i]
        IN  /\ e.name = f.name
            /\ e.type = f.type
            /\ e.required = IF f.required = Undefined THEN Bool(FALSE) ELSE f.required

\* ------------------------------------------------------ the schema helpers
\* '@request.auth.id != ""', the rule the helpers default to
AuthOnlyRule == Str("@request.auth.id != \"\"")

\* createCollectionSchema with || in place of ??
createCollectionSchema_Falsy(name, fields, options) ==
    [name |-> name,
     type |-> Coalesce_Falsy(options.type, Str("base")),
     fields |-> fields,
     listRule |-> Coalesce_Falsy(options.listRule, AuthOnlyRule),
     viewRule |-> Coalesce_Falsy(options.viewRule, AuthOnlyRule),
     createRule |-> Coalesce_Falsy(options.createRule, AuthOnlyRule),
     updateRule |-> Coalesce_Falsy(options.updateRule, AuthOnlyRule),
     deleteRule |-> Coalesce_Falsy(options.deleteRule, AuthOnlyRule),
     indexes |-> options.indexes]

\* createCollectionSchema (test-utils.ts:175-191)
createCollectionSchema(name, fields, options) ==
    [name |-> name,
     type |-> Coalesce(options.type, Str("base")),
     fields |-> fields,
     listRule |-> Coalesce(options.listRule, AuthOnlyRule),
     viewRule |-> Coalesce(options.viewRule, AuthOnlyRule),
     createRule |-> Coalesce(options.createRule, AuthOnlyRule),
     updateRule |-> Coalesce(options.updateRule, AuthOnlyRule),
     deleteRule |-> Coalesce(options.deleteRule, AuthOnlyRule),
     indexes |-> options.indexes]

\* createPublicCollectionSchema (test-utils.ts:196-212)
createPublicCollectionSchema(name, fields, options) ==
    [name |-> name,
     type |-> Coalesce(options.type, Str("base")),
     fields |-> fields,
     listRule |-> Str(""),
     viewRule |-> Str(""),
     createRule |-> Coalesce(options.createRule, AuthOnlyRule),
     updateRule |-> Coalesce(options.updateRule, AuthOnlyRule),
     deleteRule |-> Coalesce(options.deleteRule, AuthOnlyRule),
     indexes |-> options.indexes]

HelperFns == {"createCollectionSchema", "createPublicCollectionSchema"}

\* Partial<Omit<CollectionSchema, 'name' | 'fields'>>; a key that is left out
\* reads as undefined
HelperOptions ==
    {[type |-> t, indexes |-> ix,
      listRule |-> rules["listRule"], viewRule |-> rules["viewRule"],
      createRule |-> rules["createRule"], updateRule |-> rules["updateRule"],
      deleteRule |-> rules["deleteRule"]] :
        t \in {Undefined} \cup {Str(k) : k \in SchemaKinds},
        ix \in IndexValues, rules \in [RuleSlots -> RuleValues]}

\* the fields of the README's postsCollection
PostsFields ==
    <<[name |-> Str("title"), type |-> Str("text"), required |-> Bool(TRUE), options |-> Undefined],
      [name |-> Str("content"), type |-> Str("editor"), required |-> Undefined, options |-> Undefined],
      [name |-> Str("published"), type |-> Str("bool"), required |-> Undefined, options |-> Undefined]>>

InitHelpers ==
    /\ server = {}
    /\ opts = [collections |-> <<>>, updateExisting |-> FALSE,
               onProgress |-> "absent", settings |-> "none"]
    /\ st = NewRun
    /\ ref = NewRun
    /\ prev = NoPrev
    /\ hp = IdleProbe(FALSE, 0)
    /\ pl = NoBuild
    /\ cli = NoCli
    /\ mk \in {[pc |-> "ready", fn |-> fn, options |-> o, schema |-> Undefined] :
                  fn \in HelperFns, o \in HelperOptions}
    /\ PagesIdle

\* createCollectionSchema('posts', fields, options) is called and returns
MakeSchema ==
    /\ mk.pc = "ready"
    /\ mk.fn = "createCollectionSchema"
    /\ mk' = [mk EXCEPT !.pc = "made",
                        !.schema = createCollectionSchema(Str("posts"), PostsFields, mk.options)]
    /\ UNCHANGED <<server, prov, hp, pl, cli, pages>>

\* createPublicCollectionSchema('posts', fields, options) is called and returns
MakePublicSchema ==
    /\ mk.pc = "ready"
    /\ mk.fn = "createPublicCollectionSchema"
    /\ mk' = [mk EXCEPT !.pc = "made",
                        !.schema = createPublicCollectionSchema(Str("posts"), PostsFields, mk.options)]
    /\ UNCHANGED <<server, prov, hp, pl, cli, pages>>

NextHelpers == MakeSchema \/ MakePublicSchema

SpecHelpers == InitHelpers /\ [][NextHelpers]_vars

\* a rule option that is a string, the empty one included
IsString(v) == "str" \in DOMAIN v

Tweet(id, rev) == [id |-> id, rev |-> rev]

Ids(q) == {q[k].id : k \in 1..Len(q)}

\* sort '-created': the newest first; ids are given in the order of creation
RECURSIVE NewestFirst(_)
NewestFirst(S) ==
    IF S = {} THEN <<>>
    ELSE LET newest == CHOOSE x \in S : \A y \in S : y.id <= x.id
         IN  <<newest>> \o NewestFirst(S \ {newest})

\* part_002:26-27: listRecords resolved, tweets = result.items
FetchDone(t) == [t EXCEPT !.fetch = "done", !.tweets = t.items]

\* part_002:56-66: the subscription callback
OnEvent(t, e) ==
    LET list ==
          CASE e.action = "create" -> <<e.record>> \o t.tweets
            [] e.action = "delete" -> SelectSeq(t.tweets, LAMBDA x : x.id # e.record.id)
            [] e.action = "update" ->
                 [k \in 1..Len(t.tweets) |->
                    IF t.tweets[k].id = e.record.id THEN e.record ELSE t.tweets[k]]
    IN  [t EXCEPT !.tweets = list,
                  !.announced = IF e.action = "create" /\ t.fetch # "done"
                                  THEN @ \cup {e.record.id} ELSE @]

\* the server tells the subscribers of a change
Announce(t, action, record) ==
    IF t.sub = "active"
      THEN [t EXCEPT !.events = Append(@, [action |-> action, record |-> record])]
      ELSE t

InitTimeline ==
    /\ server = {"tweets"}
    /\ opts = [collections |-> <<>>, updateExisting |-> FALSE,
               onProgress |-> "absent", settings |-> "none"]
    /\ st = NewRun
    /\ ref = NewRun
    /\ prev = NoPrev
    /\ hp = IdleProbe(FALSE, 0)
    /\ pl = NoBuild
    /\ cli = NoCli
    /\ mk = NoMake
    /\ ta = NoTests
    /\ \E n \in 0..1 :
         tl = [pc |-> "loading", tweets |-> <<>>, fetch |-> "idle", items |-> <<>>,
               sub |-> "none", events |-> <<>>, announced |-> {},
               db |-> {Tweet(id, 0) : id \in 1..n}, created |-> n, edits |-> 0]

offTimeline == <<server, prov, hp, pl, cli, mk, ta>>

\* part_002:52-67: onMount calls fetchTweets and subscribes
Mount ==
    /\ tl.pc = "loading"
    /\ tl' = [tl EXCEPT !.pc = "mounted", !.fetch = "sent", !.sub = "pending"]
    /\ UNCHANGED offTimeline

\* the server answers the list request with the tweets it holds then
ServerLists ==
    /\ tl.fetch = "sent"
    /\ tl' = [tl EXCEPT !.fetch = "answered", !.items = NewestFirst(tl.db)]
    /\ UNCHANGED offTimeline

\* part_002:28-30: the list request failed, the catch logs it
FetchFails ==
    /\ tl.fetch = "sent"
    /\ tl' = [tl EXCEPT !.fetch = "failed"]
    /\ UNCHANGED offTimeline

\* the answer reaches the page
FetchCompletes ==
    /\ tl.fetch = "answered"
    /\ tl' = FetchDone(tl)
    /\ UNCHANGED offTimeline

\* the server has registered the subscription
SubscriptionOpens ==
    /\ tl.sub = "pending"
    /\ tl' = [tl EXCEPT !.sub = "active"]
    /\ UNCHANGED offTimeline

\* somebody (this page through postTweet, part_002:33-50, or another client)
\* creates a tweet
ServerCreates ==
    /\ tl.pc = "mounted"
    /\ tl.created < MaxTweets
    /\ LET rec == Tweet(tl.created + 1, 0)
       IN  tl' = Announce([tl EXCEPT !.db = @ \cup {rec}, !.created = @ + 1], "create", rec)
    /\ UNCHANGED offTimeline

ServerUpdates ==
    /\ tl.pc = "mounted"
    /\ tl.edits < MaxEdits
    /\ \E old \in tl.db :
         LET rec == Tweet(old.id, old.rev + 1)
         IN  tl' = Announce([tl EXCEPT !.db = (@ \ {old}) \cup {rec}, !.edits = @ + 1], "update", rec)
    /\ UNCHANGED offTimeline

ServerDeletes ==
    /\ tl.pc = "mounted"
    /\ \E old \in tl.db :
         tl' = Announce([tl EXCEPT !.db = @ \ {old}], "delete", old)
    /\ UNCHANGED offTimeline

\* the oldest event in flight reaches the subscription callback
EventDelivered ==
    /\ tl.events # <<>>
    /\ tl' = OnEvent([tl EXCEPT !.events = Tail(@)], Head(tl.events))
    /\ UNCHANGED offTimeline

NextTimeline ==
    \/ Mount
    \/ ServerLists
    \/ FetchFails
    \/ FetchCompletes
    \/ SubscriptionOpens
    \/ ServerCreates
    \/ ServerUpdates
    \/ ServerDeletes
    \/ EventDelivered

SpecTimeline == InitTimeline /\ [][NextTimeline]_vars

\* C29: whatever the order in which the list answer and the realtime events
\* reach the page, tweets never holds two records with the same id, and once
\* the fetch is done and no event is in flight a record that a create event
\* announced before the fetch completed, and that the server still holds, is
\* in tweets.
C29_NoDuplicateNoLoss ==
    tl.pc = "mounted" =>
      /\ \A j, k \in 1..Len(tl.tweets) : tl.tweets[j].id = tl.tweets[k].id => j = k
      /\ tl.fetch = "done" /\ tl.events = <<>> =>
           \A id \in tl.announced : id \in {x.id : x \in tl.db} => id \in Ids(tl.tweets)

\* ---------------------------------------------------- the test-suite page
\* the tests of the four groups (+page.svelte:53-161)
ConnectionTests == <<"health", "version">>
AuthTests == <<"register", "login", "session", "logout">>
CrudTests == <<"collection-check", "create", "read", "update", "list", "delete">>
RealtimeTests == <<"subscribe", "receive", "unsubscribe">>
Tests == Range(ConnectionTests) \cup Range(AuthTests) \cup Range(CrudTests) \cup Range(RealtimeTests)

\* the awaited steps: every test, and the collection check runRealtimeTests
\* makes before its tests (+page.svelte:487)
RealtimeCheck == "realtime-check"
Steps == Tests \cup {RealtimeCheck}

GroupIds == {"connection", "auth", "crud", "realtime"}

\* a runner that is not running
NoRunner == [kind |-> "", pc |-> "idle", lastOk |-> TRUE]

\* initializeTests (+page.svelte:53-161): every test idle again
initializeTests(t) == [t EXCEPT !.status = [x \in Tests |-> "idle"]]

\* updateTest(group, test, {status}) (+page.svelte:167-187)
updateTest(t, test, status) == [t EXCEPT !.status[test] = status]

RECURSIVE SkipTests(_, _)
\* updateTest(..., {status: "skipped"}) for each of the tests
SkipTests(t, tests) ==
    IF tests = <<>> THEN t
    ELSE SkipTests(updateTest(t, Head(tests), "skipped"), Tail(tests))

\* the tests whose body makes no request (+page.svelte:218, 307, 335 and
\* 586): their runTest settles in the turn of the event loop that called
\* it, before any other callback of the page runs
Immediate == {"version", "session", "logout", "unsubscribe"}

RECURSIVE AwaitStep(_, _, _), Settled(_, _, _), Returns(_, _, _)

\* updateTest(..., {status: "running"}); await runTest(...): the runner
\* waits for the answer, or goes on at once when the body makes no request:
\* the SDK check and unsubscribe pass, the session test reads the auth
\* store, logout() clears it and passes
AwaitStep(t, who, step) ==
    LET t1 == [t EXCEPT ![who].pc = step]
    IN  CASE step = "session" -> Settled(t1, who, t.authed)
          [] step = "logout" -> Settled([t1 EXCEPT !.authed = FALSE], who, TRUE)
          [] step \in Immediate -> Settled(t1, who, TRUE)
          [] step \in Tests -> updateTest(t1, step, "running")
          [] OTHER -> t1

\* the runner has nothing left to do
RunnerDone(t, who) == [t EXCEPT ![who].pc = "done"]

\* +page.svelte:618-619
FinishAll(t) ==
    [RunnerDone(t, "all") EXCEPT !.globalStatus = "complete", !.isRunningAll = FALSE]

\* runAllTests without its last step, the logout test
Returns_NoFinalLogout(t, who, fn) ==
    LET kind == t[who].kind
    IN  CASE kind = "all" /\ fn = "connection" -> AwaitStep(t, who, "register")
          [] kind = "all" /\ fn = "auth" -> AwaitStep(t, who, "collection-check")
          [] kind = "all" /\ fn = "crud" -> AwaitStep(t, who, RealtimeCheck)
          [] kind = "all" /\ fn = "realtime" -> FinishAll(t)
          [] kind = "all" /\ fn = "logout" -> FinishAll(t)
          [] kind \in {"crud", "realtime"} /\ fn = "auth" ->
               AwaitStep(t, who, IF kind = "crud" THEN "collection-check" ELSE RealtimeCheck)
          [] OTHER -> RunnerDone(t, who)

\* the function fn returned to its caller: runAllTests (+page.svelte:605-620)
\* or runGroupTests (+page.svelte:622-645) goes on
Returns(t, who, fn) ==
    LET kind == t[who].kind
    IN  CASE kind = "all" /\ fn = "connection" -> AwaitStep(t, who, "register")
          [] kind = "all" /\ fn = "auth" -> AwaitStep(t, who, "collection-check")
          [] kind = "all" /\ fn = "crud" -> AwaitStep(t, who, RealtimeCheck)
          [] kind = "all" /\ fn = "realtime" -> AwaitStep(t, who, "logout")
          [] kind = "all" /\ fn = "logout" -> FinishAll(t)
          [] kind \in {"crud", "realtime"} /\ fn = "auth" ->
               AwaitStep(t, who, IF kind = "crud" THEN "collection-check" ELSE RealtimeCheck)
          [] OTHER -> RunnerDone(t, who)

\* runAuthTests(skipLogout): true from runAllTests and from the crud and
\* realtime groups, false from the auth group
SkipLogout(kind) == kind # "auth"

\* the awaited runTest (or checkCollection) of the runner settled: the code
\* of +page.svelte:190-603 from there to the next await or to the end
Settled(t0, who, ok) ==
    LET step == t0[who].pc
        t1 == IF step \in Tests
                THEN updateTest(t0, step, IF ok THEN "passed" ELSE "failed")
                ELSE t0
        t2 == IF step \in Immediate THEN t1 ELSE [t1 EXCEPT ![who].lastOk = ok]
        t == IF step = "login" /\ ok THEN [t2 EXCEPT !.authed = TRUE] ELSE t2
    IN  CASE step = "health" ->
               IF ok THEN AwaitStep(t, who, "version")
               ELSE Returns(SkipTests(t, <<"version">>), who, "connection")
          [] step = "version" -> Returns(t, who, "connection")
          [] step = "register" ->
               IF ok THEN AwaitStep(t, who, "login")
               ELSE Returns(SkipTests(t, <<"login", "session", "logout">>), who, "auth")
          [] step = "login" ->
               IF ok THEN AwaitStep(t, who, "session")
               ELSE Returns(SkipTests(t, <<"session", "logout">>), who, "auth")
          [] step = "session" ->
               IF SkipLogout(t[who].kind) THEN Returns(t, who, "auth")
               ELSE AwaitStep(t, who, "logout")
          [] step = "logout" ->
               Returns(t, who, IF t[who].kind = "all" THEN "logout" ELSE "auth")
          [] step = "collection-check" ->
               IF ok THEN AwaitStep(t, who, "create")
               ELSE Returns(SkipTests(t, <<"create", "read", "update", "list", "delete">>), who, "crud")
          [] step = "create" ->
               IF ok THEN AwaitStep(t, who, "read")
               ELSE Returns(SkipTests(t, <<"read", "update", "list", "delete">>), who, "crud")
          [] step = "read" -> AwaitStep(t, who, "update")
          [] step = "update" -> AwaitStep(t, who, "list")
          [] step = "list" -> AwaitStep(t, who, "delete")
          [] step = "delete" -> Returns(t, who, "crud")
          [] step = RealtimeCheck ->
               IF ok THEN AwaitStep(t, who, "subscribe")
               ELSE Returns(SkipTests(t, RealtimeTests), who, "realtime")
          [] step = "subscribe" ->
               IF ok THEN AwaitStep(t, who, "receive")
               ELSE Returns(SkipTests(t, <<"receive", "unsubscribe">>), who, "realtime")
          [] step = "receive" -> AwaitStep(t, who, "unsubscribe")
          [] step = "unsubscribe" -> Returns(t, who, "realtime")

InitTests ==
    /\ server \in SUBSET {"test_items"}
    /\ opts = [collections |-> <<>>, updateExisting |-> FALSE,
               onProgress |-> "absent", settings |-> "none"]
    /\ st = NewRun
    /\ ref = NewRun
    /\ prev = NoPrev
    /\ hp = IdleProbe(FALSE, 0)
    /\ pl = NoBuild
    /\ cli = NoCli
    /\ mk = NoMake
    /\ tl = NoTimeline
    /\ \E b \in BOOLEAN :
         ta = initializeTests([pc |-> "mounted", status |-> <<>>,
                               isRunningAll |-> FALSE, globalStatus |-> "idle",
                               authed |-> b, all |-> NoRunner, grp |-> NoRunner,
                               allClicks |-> 0, groupClicks |-> 0])

offTests == <<server, prov, hp, pl, cli, mk, tl>>

Running(who) == ta[who].pc \in Steps

\* the Run All button (+page.svelte:708-709), then runAllTests up to its
\* first await
RunAllClicked ==
    /\ ~ta.isRunningAll
    /\ ~Running("all")
    /\ ta.allClicks < MaxRunAlls
    /\ ta' = AwaitStep(initializeTests([ta EXCEPT !.isRunningAll = TRUE,
                                                 !.globalStatus = "running",
                                                 !.all.kind = "all",
                                                 !.allClicks = @ + 1]),
                       "all", "health")
    /\ UNCHANGED offTests

\* the Run button of a group (+page.svelte:748-749), then runGroupTests up
\* to its first await
RunGroupClicked(g) ==
    /\ ~ta.isRunningAll
    /\ ~Running("grp")
    /\ ta.groupClicks < MaxGroupRuns
    /\ LET t == [ta EXCEPT !.grp.kind = g, !.groupClicks = @ + 1]
       IN  ta' = CASE g = "connection" -> AwaitStep(t, "grp", "health")
                   [] g = "auth" -> AwaitStep(t, "grp", "register")
                   [] g = "crud" ->
                        AwaitStep(t, "grp", IF ta.authed THEN "collection-check" ELSE "register")
                   [] g = "realtime" ->
                        AwaitStep(t, "grp", IF ta.authed THEN RealtimeCheck ELSE "register")
    /\ UNCHANGED offTests

\* the step runAllTests waits for settles
AllSettles ==
    /\ Running("all")
    /\ \E ok \in BOOLEAN : ta' = Settled(ta, "all", ok)
    /\ UNCHANGED offTests

\* the step the group run waits for settles
GroupSettles ==
    /\ Running("grp")
    /\ \E ok \in BOOLEAN : ta' = Settled(ta, "grp", ok)
    /\ UNCHANGED offTests

NextTests ==
    \/ RunAllClicked
    \/ \E g \in GroupIds : RunGroupClicked(g)
    \/ AllSettles
    \/ GroupSettles

SpecTests == InitTests /\ [][NextTests]_vars

\* the steps whose failure makes the runner skip the test
Prerequisites(test) ==
    CASE test = "version" -> {"health"}
      [] test = "login" -> {"register"}
      [] test \in {"session", "logout"} -> {"register", "login"}
      [] test = "create" -> {"collection-check"}
      [] test \in {"read", "update", "list", "delete"} -> {"collection-check", "create"}
      [] test = "subscribe" -> {RealtimeCheck}
      [] test \in {"receive", "unsubscribe"} -> {RealtimeCheck, "subscribe"}
      [] OTHER -> {}

\* the runner whose awaited step settles in this step of the page
Settling(who) == Running(who) /\ ta'[who] # ta[who] /\ ta'[who].kind = ta[who].kind

\* C30: when runAllTests has completed and no group run is in flight, every
\* test is passed, failed or skipped, globalStatus is 'complete' and
\* isRunningAll is false; while runAllTests runs isRunningAll is true, which
\* disables the Run All button; and a test becomes skipped only in the step
\* in which a prerequisite step of its group failed.
C30_AllTestsFinal ==
    /\ [](/\ ta.all.pc = "done" /\ ~Running("grp") =>
               /\ \A x \in Tests : ta.status[x] \in {"passed", "failed", "skipped"}
               /\ ta.globalStatus = "complete"
               /\ ~ta.isRunningAll
          /\ Running("all") => ta.isRunningAll /\ ta.globalStatus = "running"
          /\ ta.isRunningAll => ~ENABLED RunAllClicked)
    /\ [][\A x \in Tests :
            ta'.status[x] = "skipped" /\ ta.status[x] # "skipped" =>
              \E who \in {"all", "grp"} :
                 /\ Settling(who)
                 /\ ta[who].pc \in Prerequisites(x)
                 /\ ~ta'[who].lastOk]_vars

C30_Witness ==
    /\ ta.all.pc = "done"
    /\ ta.grp.pc = "done"
    /\ ta.grp.kind = "auth"
    /\ ta.status["health"] = "failed"
    /\ ta.status["version"] = "skipped"
    /\ ta.status["session"] = "passed"
    /\ ta.status["logout"] = "passed"
    /\ ta.status["create"] = "failed"
    /\ ta.status["delete"] = "skipped"
    /\ ta.status["unsubscribe"] = "passed"

====
